---- MODULE Spec2Model ----
(***************************************************************************)
(* Model of the F5Router route controller (src/f5router/f5router.go).     *)
(*                                                                         *)
(* Strings are sequences of tokens (one token per character, except for   *)
(* the constant names, which are never split).  A SHA-256 digest is       *)
(* modelled as a collision-free encoding of its input.                    *)
(*                                                                         *)
(* Two fields that the code stores in the index records are kept in the   *)
(* assembled document only: rule.Ordinal and frontend.Policies/Profiles.  *)
(* Both are overwritten by every emission before they are read (lines     *)
(* 392-395 and 234-241), so their stored value never decides anything.    *)
(* SpecSort runs makeRoutePolicy step by step, with the Ordinal fields as *)
(* a variable, and relates it to the one-step operator used by process(). *)
(*                                                                         *)
(* Specifications: Spec (the router with its usual inputs), SpecNames (a  *)
(* virtual-server name equal to a pool name), SpecBad (URIs no rule can   *)
(* be built for), SpecCaller (one caller that logs its calls), SpecFair   *)
(* (SpecNames with a fairly scheduled worker), SpecSort (the assembler).  *)
(***************************************************************************)
EXTENDS Integers, Sequences, FiniteSets, TLC

\* ------------------------------------------------------------------ bounds
MaxHosts == 2
MaxEndpoints == 2
MaxCalls == 3
MaxCallsNames == 4
MaxCallsBad == 4
MaxCallsCaller == 4

\* --------------------------------------------------------------- constants
add == "add"
remove == "remove"
HTTP == "HTTP"
HTTPS == "HTTPS"
HTTPRouterName == <<"routing-vip-http">>
HTTPSRouterName == <<"routing-vip-https">>
CFRoutingPolicyName == <<"cf-routing-policy">>
WildcardPrefix == <<"*", ".">>
PortHTTP == 80
PortHTTPS == 443

\* ----------------------------------------------------------------- strings
\* byte value of a token; Go compares strings bytewise
Code(c) ==
    CASE c = "*" -> 42
      [] c = "-" -> 45
      [] c = "." -> 46
      [] c = "a" -> 97
      [] c = "b" -> 98
      [] c = "c" -> 99
      [] c = "x" -> 120
      [] OTHER -> 0

RECURSIVE StringLess(_, _)
StringLess(s, t) ==
    IF t = <<>> THEN FALSE
    ELSE IF s = <<>> THEN TRUE
    ELSE IF Code(Head(s)) # Code(Head(t)) THEN Code(Head(s)) < Code(Head(t))
    ELSE StringLess(Tail(s), Tail(t))

HasPrefix(s, p) == Len(s) >= Len(p) /\ SubSeq(s, 1, Len(p)) = p
TrimPrefix(s, p) == IF HasPrefix(s, p) THEN SubSeq(s, Len(p) + 1, Len(s)) ELSE s

\* strings.Index(s, "."): 1-based position of the first ".", 0 when absent
IndexDot(s) ==
    IF \E i \in 1..Len(s) : s[i] = "."
    THEN CHOOSE i \in 1..Len(s) : s[i] = "." /\ \A j \in 1..(i - 1) : s[j] # "."
    ELSE 0

\* hex of the first 8 bytes of sha256(uri)
Sum256Hex(uri) == <<"#">> \o uri

makePoolName(uri) == SubSeq(uri, 1, IndexDot(uri) - 1) \o <<"-">> \o Sum256Hex(uri)

\* ------------------------------------------------------------------ inputs
Letters == <<"a", "b", "c">>
EndpointAddrs == <<"10.0.0.1:80", "10.0.0.2:80", "10.0.0.3:80">>
Hosts == {<<Letters[i], ".", "x">> : i \in 1..MaxHosts}
Uris == Hosts \cup {WildcardPrefix \o h : h \in Hosts}
Endpoints == {EndpointAddrs[i] : i \in 1..MaxEndpoints}
VsTypes == {HTTP, HTTPS}
\* the two names the controller gives its virtual servers
VsNames == {HTTPRouterName, HTTPSRouterName}

\* inputs on which pool names and virtual-server names meet
NamesUris == {<<"a", ".", "x">>, WildcardPrefix \o <<"b", ".", "x">>}
NamesEndpoints == {EndpointAddrs[1]}
NamesVs == {makePoolName(<<"a", ".", "x">>)}

\* inputs with a host that url.Parse rejects ("%" not followed by two hex digits)
BadHost == <<"%", ".", "x">>
BadUris == {<<"a", ".", "x">>, BadHost, WildcardPrefix \o BadHost}

\* the URIs one caller works on
CallerUris == {<<"a", ".", "x">>}

\* --------------------------------------------------------------- work items
PoolItem(op, name, uri, endpoint, wildcard) ==
    [kind |-> "pool", op |-> op, Name |-> name, URI |-> uri,
     Endpoint |-> endpoint, Wildcard |-> wildcard, T |-> HTTP]

VirtualItem(op, name, t) ==
    [kind |-> "virtual", op |-> op, Name |-> name, URI |-> <<>>,
     Endpoint |-> "", Wildcard |-> FALSE, T |-> t]

NoItem == [kind |-> "none", op |-> add, Name |-> <<>>, URI |-> <<>>,
           Endpoint |-> "", Wildcard |-> FALSE, T |-> HTTP]

\* the work item UpdatePoolEndpoints builds
UpdatePoolItem(uri, endpoint) ==
    IF HasPrefix(uri, WildcardPrefix)
    THEN PoolItem(add, TrimPrefix(uri, WildcardPrefix),
                  TrimPrefix(uri, WildcardPrefix), endpoint, TRUE)
    ELSE PoolItem(add, makePoolName(uri), uri, endpoint, FALSE)

\* the work item RemovePoolEndpoints builds: URI is the uri as passed
RemovePoolItem(uri, endpoint) ==
    IF HasPrefix(uri, WildcardPrefix)
    THEN PoolItem(remove, TrimPrefix(uri, WildcardPrefix), uri, endpoint, TRUE)
    ELSE PoolItem(remove, makePoolName(uri), uri, endpoint, FALSE)

\* ------------------------------------------------------------ state indices
EmptyMap == [k \in {} |-> k]
Put(map, k, v) == [x \in (DOMAIN map) \cup {k} |-> IF x = k THEN v ELSE map[x]]
Delete(map, k) == [x \in (DOMAIN map) \ {k} |-> map[x]]

Indices(pools, exact, wild) == [m |-> pools, r |-> exact, wildcards |-> wild]

\* makePool: a pool-only record, no virtual address
makePool(name, uri, endpoint) ==
    [ServiceName |-> uri, PoolMemberAddrs |-> <<endpoint>>,
     Virtual |-> FALSE, Port |-> 0, SSLProfile |-> FALSE]

\* makeVirtual without the ssl profile of lines 602-604
makeVirtual_NoSSL(name, t) ==
    [ServiceName |-> name, PoolMemberAddrs |-> <<>>, Virtual |-> TRUE,
     Port |-> IF t = HTTP THEN PortHTTP ELSE IF t = HTTPS THEN PortHTTPS ELSE 0,
     SSLProfile |-> FALSE]

\* makeVirtual: a virtual-server front with an empty member list
makeVirtual(name, t) ==
    [ServiceName |-> name, PoolMemberAddrs |-> <<>>, Virtual |-> TRUE,
     Port |-> IF t = HTTP THEN PortHTTP ELSE IF t = HTTPS THEN PortHTTPS ELSE 0,
     SSLProfile |-> (t # HTTP /\ t = HTTPS)]

\* url.Parse("scheme://" + uri) rejects a host with a malformed escape
UrlParseOk(uri) == \A i \in 1..Len(uri) : uri[i] # "%"

makeRouteRule(p) ==
    [err |-> ~UrlParseOk(p.URI),
     rule |-> [FullURI |-> p.URI, Name |-> p.Name, EndsWith |-> p.Wildcard]]

Contains(addrs, e) == \E i \in 1..Len(addrs) : addrs[i] = e

\* append(addrs[:i], addrs[i+1:]...) for the first i with addrs[i] = e
RemoveFirst(addrs, e) ==
    IF Contains(addrs, e)
    THEN LET i == CHOOSE k \in 1..Len(addrs) :
                      addrs[k] = e /\ \A j \in 1..(k - 1) : addrs[j] # e
         IN SubSeq(addrs, 1, i - 1) \o SubSeq(addrs, i + 1, Len(addrs))
    ELSE addrs

\* processPoolAdd without the search for the endpoint (lines 428-435)
processPoolAdd_NoSearch(st, p) ==
    IF p.Name \in DOMAIN st.m
    THEN [st EXCEPT !.m = Put(st.m, p.Name,
              [st.m[p.Name] EXCEPT !.PoolMemberAddrs = Append(@, p.Endpoint)])]
         @@ [ret |-> TRUE]
    ELSE LET made == makeRouteRule(p)
         IN IF made.err
            THEN st @@ [ret |-> FALSE]
            ELSE [m |-> Put(st.m, p.Name, makePool(p.Name, p.URI, p.Endpoint)),
                  r |-> IF p.Wildcard THEN st.r ELSE Put(st.r, p.URI, made.rule),
                  wildcards |-> IF p.Wildcard
                                THEN Put(st.wildcards, p.URI, made.rule)
                                ELSE st.wildcards,
                  ret |-> TRUE]

\* processPoolAdd filing every new rule in r, whatever p.Wildcard (line 453)
processPoolAdd_OneIndex(st, p) ==
    IF p.Name \in DOMAIN st.m
    THEN LET pool == st.m[p.Name]
         IN IF ~Contains(pool.PoolMemberAddrs, p.Endpoint)
            THEN [st EXCEPT !.m = Put(st.m, p.Name,
                      [pool EXCEPT !.PoolMemberAddrs = Append(@, p.Endpoint)])]
                 @@ [ret |-> TRUE]
            ELSE st @@ [ret |-> FALSE]
    ELSE LET made == makeRouteRule(p)
         IN IF made.err
            THEN st @@ [ret |-> FALSE]
            ELSE [m |-> Put(st.m, p.Name, makePool(p.Name, p.URI, p.Endpoint)),
                  r |-> Put(st.r, p.URI, made.rule),
                  wildcards |-> st.wildcards,
                  ret |-> TRUE]

\* processPoolAdd going on to create the pool after a failed rule (line 450)
processPoolAdd_NoReturn(st, p) ==
    IF p.Name \in DOMAIN st.m
    THEN LET pool == st.m[p.Name]
         IN IF ~Contains(pool.PoolMemberAddrs, p.Endpoint)
            THEN [st EXCEPT !.m = Put(st.m, p.Name,
                      [pool EXCEPT !.PoolMemberAddrs = Append(@, p.Endpoint)])]
                 @@ [ret |-> TRUE]
            ELSE st @@ [ret |-> FALSE]
    ELSE LET made == makeRouteRule(p)
         IN [m |-> Put(st.m, p.Name, makePool(p.Name, p.URI, p.Endpoint)),
             r |-> IF p.Wildcard \/ made.err THEN st.r
                   ELSE Put(st.r, p.URI, made.rule),
             wildcards |-> IF p.Wildcard /\ ~made.err
                           THEN Put(st.wildcards, p.URI, made.rule)
                           ELSE st.wildcards,
             ret |-> TRUE]

processPoolAdd(st, p) ==
    IF p.Name \in DOMAIN st.m
    THEN LET pool == st.m[p.Name]
         IN IF ~Contains(pool.PoolMemberAddrs, p.Endpoint)
            THEN [st EXCEPT !.m = Put(st.m, p.Name,
                      [pool EXCEPT !.PoolMemberAddrs = Append(@, p.Endpoint)])]
                 @@ [ret |-> TRUE]
            ELSE st @@ [ret |-> FALSE]
    ELSE LET made == makeRouteRule(p)
         IN IF made.err
            THEN st @@ [ret |-> FALSE]
            ELSE [m |-> Put(st.m, p.Name, makePool(p.Name, p.URI, p.Endpoint)),
                  r |-> IF p.Wildcard THEN st.r ELSE Put(st.r, p.URI, made.rule),
                  wildcards |-> IF p.Wildcard
                                THEN Put(st.wildcards, p.URI, made.rule)
                                ELSE st.wildcards,
                  ret |-> TRUE]

\* processPoolRemove without the deletion of an emptied pool (lines 493-510)
processPoolRemove_KeepEmpty(st, p) ==
    IF p.Name \in DOMAIN st.m
    THEN [st EXCEPT !.m = Put(st.m, p.Name,
              [st.m[p.Name] EXCEPT
                   !.PoolMemberAddrs = RemoveFirst(@, p.Endpoint)])]
         @@ [ret |-> TRUE]
    ELSE st @@ [ret |-> FALSE]

processPoolRemove(st, p) ==
    IF p.Name \in DOMAIN st.m
    THEN LET pool == st.m[p.Name]
             addrs == RemoveFirst(pool.PoolMemberAddrs, p.Endpoint)
         IN IF Len(addrs) = 0
            THEN [m |-> Delete(st.m, p.Name),
                  r |-> IF p.Wildcard THEN st.r ELSE Delete(st.r, p.URI),
                  wildcards |-> IF p.Wildcard
                                THEN Delete(st.wildcards, p.URI)
                                ELSE st.wildcards,
                  ret |-> TRUE]
            ELSE [st EXCEPT !.m = Put(st.m, p.Name,
                      [pool EXCEPT !.PoolMemberAddrs = addrs])]
                 @@ [ret |-> TRUE]
    ELSE st @@ [ret |-> FALSE]

processPool(st, op, p) ==
    IF op = add THEN processPoolAdd(st, p) @@ [err |-> FALSE]
    ELSE IF op = remove THEN processPoolRemove(st, p) @@ [err |-> FALSE]
    ELSE st @@ [ret |-> FALSE, err |-> TRUE]

processVirtualAdd(st, v) ==
    [st EXCEPT !.m = Put(st.m, v.Name, makeVirtual(v.Name, v.T))] @@ [ret |-> TRUE]

processVirtualRemove(st, v) ==
    [st EXCEPT !.m = Delete(st.m, v.Name)] @@ [ret |-> TRUE]

processVirtual(st, op, v) ==
    IF op = add THEN processVirtualAdd(st, v) @@ [err |-> FALSE]
    ELSE IF op = remove THEN processVirtualRemove(st, v) @@ [err |-> FALSE]
    ELSE st @@ [ret |-> FALSE, err |-> TRUE]

\* the type switch of process(): (tryUpdate, err) and the indices afterwards
Dispatch(st, w) ==
    IF w.kind = "pool" THEN processPool(st, w.op, w)
    ELSE IF w.kind = "virtual" THEN processVirtual(st, w.op, w)
    ELSE st @@ [ret |-> FALSE, err |-> FALSE]

\* --------------------------------------------------------- policy assembler
Values(map) == {map[k] : k \in DOMAIN map}

\* rules.Less with its operands exchanged
Less_Exchanged(a, b) == StringLess(b.FullURI, a.FullURI)

\* rules.Less
Less(a, b) == StringLess(a.FullURI, b.FullURI)

\* sort.Sort(sort.Reverse(rls)): no element is followed by a greater one
RECURSIVE SortReverse(_)
SortReverse(S) ==
    IF S = {} THEN <<>>
    ELSE LET x == CHOOSE v \in S : \A y \in S : ~Less(v, y)
         IN <<x>> \o SortReverse(S \ {x})

\* the sortRules closure: collect, sort, number from ordinal
sortRules(map, ordinal) ==
    LET rls == SortReverse(Values(map))
    IN [i \in 1..Len(rls) |-> rls[i] @@ [Ordinal |-> ordinal + (i - 1)]]

makeRoutePolicy(st) ==
    [Name |-> CFRoutingPolicyName,
     Rules |-> sortRules(st.r, 0) \o sortRules(st.wildcards, Cardinality(DOMAIN st.m))]

\* ----------------------------------------------------------------- document
InitialDocument == [full |-> FALSE, policies |-> <<>>, services |-> <<>>]
NoDocument == [full |-> FALSE, policies |-> <<"none">>, services |-> <<>>]

\* one services entry; the two router names get the policy and profile lists
Service(st, k) ==
    [Name |-> k, Config |-> st.m[k],
     Policies |-> (k = HTTPRouterName \/ k = HTTPSRouterName)]

\* the orders in which range-over-map can visit the pools
Orders(S) ==
    {o \in [1..Cardinality(S) -> S] : \A i, j \in 1..Cardinality(S) : i # j => o[i] # o[j]}

Document(st, order) ==
    [full |-> TRUE,
     policies |-> <<makeRoutePolicy(st)>>,
     services |-> [i \in 1..Len(order) |-> Service(st, order[i])]]

\* ----------------------------------------------------------------- program
VARIABLES
    m,            \* F5Router.m: pool name -> pool record
    r,            \* F5Router.r: URI -> rule (exact)
    wildcards,    \* F5Router.wildcards: URI -> rule (wildcard)
    drainUpdate,  \* F5Router.drainUpdate
    queue,        \* work queue: items waiting for Get, in order
    dirty,        \* work queue: items added and not yet handed out
    processing,   \* work queue: items handed out and not yet Done
    shuttingDown, \* work queue: ShutDown was called
    pc,           \* worker: "get", "work", "done" (deferred Done pending), "exited"
    item,         \* process(): the item Get returned
    tryUpdate,    \* process(): what the handler returned
    l,            \* process(): the queue length read at line 219
    pre,          \* indices and drainUpdate when process() took up the item
    doc,          \* process(): the document handed to the writer in this call
    emit,         \* process(): "none", or the outcome of the write
    afterShutDown,\* process(): Get returned the item after ShutDown was called
    written,      \* the writer: last document it accepted in full
    runpc,        \* Run: "signals" (waiting), "done" (waiting), "returned"
    calls,        \* number of intake calls made so far
    issued,       \* the calls of the single caller of SpecCaller, in issue order
    apc,          \* makeRoutePolicy: "idle", "go1", "go2", "wait", "append", "returned"
    task,         \* the two sortRules goroutines: position and locals of each
    lst,          \* makeRoutePolicy: the lists rls ("r") and w ("w"), as rule ids
    Ordinal,      \* the Ordinal field of each rule record, by rule id
    plcyRules     \* makeRoutePolicy: plcy.Rules, as rule ids

vars == <<m, r, wildcards, drainUpdate, queue, dirty, processing, shuttingDown,
          pc, item, tryUpdate, l, pre, doc, emit, afterShutDown, written, runpc,
          calls, issued, apc, task, lst, Ordinal, plcyRules>>

indexVars == <<m, r, wildcards, drainUpdate>>
queueVars == <<queue, dirty, processing, shuttingDown>>
localVars == <<item, tryUpdate, l, pre, doc, emit, afterShutDown>>
sortVars == <<apc, task, lst, Ordinal, plcyRules>>

\* a sortRules goroutine that has not been started
NoTask == [pc |-> "unstarted", seen |-> {}, cursor |-> 0, ordinal |-> 0]

Current == Indices(m, r, wildcards)
NoPre == Indices(EmptyMap, EmptyMap, EmptyMap) @@ [drainUpdate |-> FALSE]

\* NewF5Router: empty indices, a fresh queue, the initial document written
Init ==
    /\ m = EmptyMap
    /\ r = EmptyMap
    /\ wildcards = EmptyMap
    /\ drainUpdate = FALSE
    /\ queue = <<>>
    /\ dirty = {}
    /\ processing = {}
    /\ shuttingDown = FALSE
    /\ pc = "get"
    /\ item = NoItem
    /\ tryUpdate = FALSE
    /\ l = 0
    /\ pre = NoPre
    /\ doc = NoDocument
    /\ emit = "none"
    /\ afterShutDown = FALSE
    /\ written = InitialDocument
    /\ runpc = "signals"
    /\ calls = 0
    /\ issued = <<>>
    /\ apc = "idle"
    /\ task = [t \in {"r", "w"} |-> NoTask]
    /\ lst = [t \in {"r", "w"} |-> <<>>]
    /\ Ordinal = EmptyMap
    /\ plcyRules = <<>>

\* --------------------------------------------------------------- work queue
\* queue.Add: dropped after ShutDown and when an equal item is waiting; an item
\* equal to the one being processed is queued again by Done
QueueAdd(w) ==
    IF shuttingDown \/ w \in dirty
    THEN UNCHANGED queueVars
    ELSE /\ dirty' = dirty \cup {w}
         /\ queue' = IF w \in processing THEN queue ELSE Append(queue, w)
         /\ UNCHANGED <<processing, shuttingDown>>

\* an intake call that also applies its item to the indices itself
Enqueue_Direct(w) ==
    /\ calls' = calls + 1
    /\ QueueAdd(w)
    /\ LET res == Dispatch(Current, w)
       IN /\ m' = res.m
          /\ r' = res.r
          /\ wildcards' = res.wildcards
          /\ drainUpdate' = (drainUpdate \/ res.ret)
    /\ UNCHANGED <<pc, localVars, written, runpc, sortVars>>

\* an intake call, lines 543-551, 580-588, 664-672 and 685-693: one queue.Add
Enqueue(w) ==
    /\ calls' = calls + 1
    /\ QueueAdd(w)
    /\ UNCHANGED <<indexVars, pc, localVars, written, runpc, sortVars>>

\* ------------------------------------------------------------ public intake
UpdatePoolEndpoints(uri, endpoint) == Enqueue(UpdatePoolItem(uri, endpoint))

RemovePoolEndpoints(uri, endpoint) == Enqueue(RemovePoolItem(uri, endpoint))

UpdateVirtualServer(name, t) == Enqueue(VirtualItem(add, name, t))

RemoveVirtualServer(name, t) == Enqueue(VirtualItem(remove, name, t))

\* ------------------------------------------------------------------- worker
\* process(), line 183: Get hands out the head of the queue
Get ==
    /\ pc = "get"
    /\ queue # <<>>
    /\ item' = Head(queue)
    /\ queue' = Tail(queue)
    /\ processing' = processing \cup {Head(queue)}
    /\ dirty' = dirty \ {Head(queue)}
    /\ afterShutDown' = shuttingDown
    /\ pc' = "work"
    /\ UNCHANGED <<indexVars, shuttingDown, tryUpdate, l, pre, doc, emit,
                   written, runpc, calls, issued, sortVars>>

\* the worker leaving as soon as the queue is shut down, items queued or not
Quit_Prompt ==
    /\ pc = "get"
    /\ shuttingDown
    /\ pc' = "exited"
    /\ UNCHANGED <<indexVars, queueVars, localVars, written, runpc, calls, issued,
                   sortVars>>

\* process(), lines 184-187, and runWorker, lines 145-146: Get reports quit
\* once the queue is shut down and empty; the worker closes done
Quit ==
    /\ pc = "get"
    /\ queue = <<>>
    /\ shuttingDown
    /\ pc' = "exited"
    /\ UNCHANGED <<indexVars, queueVars, localVars, written, runpc, calls, issued,
                   sortVars>>

\* the test of line 220 with the comparison of the length inverted
ShouldWrite_WhileQueued(err, pending, len) == ~err /\ pending /\ len # 0

\* the test of line 220 without the queue length
ShouldWrite_AnyLength(err, pending, len) == ~err /\ pending

\* process(), lines 216-220: no error, an update pending, nothing queued
ShouldWrite(err, pending, len) == ~err /\ pending /\ len = 0

\* process(), lines 198-272: apply the item, read the queue length, and
\* write the document when an update is pending and the queue is empty
Work ==
    /\ pc = "work"
    /\ LET res == Dispatch(Current, item)
           pending == IF drainUpdate = FALSE THEN res.ret ELSE drainUpdate
           len == Len(queue)
           writes == ShouldWrite(res.err, pending, len)
       IN /\ m' = res.m
          /\ r' = res.r
          /\ wildcards' = res.wildcards
          /\ tryUpdate' = res.ret
          /\ l' = IF res.err THEN 0 ELSE len
          /\ pre' = Current @@ [drainUpdate |-> drainUpdate]
          /\ IF writes
             THEN /\ drainUpdate' = FALSE
                  /\ \E order \in Orders(DOMAIN res.m) :
                         doc' = Document(Indices(res.m, res.r, res.wildcards), order)
                  /\ \E outcome \in {"ok", "error", "short"} :
                         /\ emit' = outcome
                         /\ written' = IF outcome = "ok" THEN doc' ELSE written
             ELSE /\ drainUpdate' = pending
                  /\ doc' = NoDocument
                  /\ emit' = "none"
                  /\ written' = written
    /\ pc' = "done"
    /\ UNCHANGED <<queueVars, item, afterShutDown, runpc, calls, issued, sortVars>>

\* process(), line 189: the deferred queue.Done(item)
Done ==
    /\ pc = "done"
    /\ processing' = processing \ {item}
    /\ queue' = IF item \in dirty THEN Append(queue, item) ELSE queue
    /\ pc' = "get"
    /\ item' = NoItem
    /\ tryUpdate' = FALSE
    /\ l' = 0
    /\ pre' = NoPre
    /\ doc' = NoDocument
    /\ emit' = "none"
    /\ afterShutDown' = FALSE
    /\ UNCHANGED <<indexVars, dirty, shuttingDown, written, runpc, calls, issued,
                   sortVars>>

\* ---------------------------------------------------------------------- Run
\* Run going on to wait for done without shutting the queue down
Signal_NoShutDown ==
    /\ runpc = "signals"
    /\ runpc' = "done"
    /\ UNCHANGED <<indexVars, queueVars, pc, localVars, written, calls, issued,
                   sortVars>>

\* Run, lines 112-113: a signal arrives and the queue is shut down
Signal ==
    /\ runpc = "signals"
    /\ shuttingDown' = TRUE
    /\ runpc' = "done"
    /\ UNCHANGED <<indexVars, queue, dirty, processing, pc, localVars, written,
                   calls, issued, sortVars>>

\* Run, lines 114-116: done is closed, Run returns
RunReturn ==
    /\ runpc = "done"
    /\ pc = "exited"
    /\ runpc' = "returned"
    /\ UNCHANGED <<indexVars, queueVars, pc, localVars, written, calls, issued,
                   sortVars>>

\* the callers: any of the four operations, on inputs drawn from the given
\* sets, until `limit` calls have been made
Intake(uris, endpoints, names, types, limit) ==
    \/ \E uri \in uris, endpoint \in endpoints :
           calls < limit /\ UpdatePoolEndpoints(uri, endpoint) /\ UNCHANGED issued
    \/ \E uri \in uris, endpoint \in endpoints :
           calls < limit /\ RemovePoolEndpoints(uri, endpoint) /\ UNCHANGED issued
    \/ \E name \in names, t \in types :
           calls < limit /\ UpdateVirtualServer(name, t) /\ UNCHANGED issued
    \/ \E name \in names, t \in types :
           calls < limit /\ RemoveVirtualServer(name, t) /\ UNCHANGED issued

Worker == Get \/ Quit \/ Work \/ Done

Lifecycle == Signal \/ RunReturn

Next ==
    \/ Intake(Uris, Endpoints, VsNames, VsTypes, MaxCalls)
    \/ Worker
    \/ Lifecycle

Spec == Init /\ [][Next]_vars

\* Callers that use one exact and one wildcard URI and a virtual-server name
\* equal to the exact URI's pool name; fewer inputs, longer call sequences.
NextNames ==
    \/ Intake(NamesUris, NamesEndpoints, NamesVs, {HTTP}, MaxCallsNames)
    \/ Worker
    \/ Lifecycle

SpecNames == Init /\ [][NextNames]_vars

\* The same callers, with the worker goroutine and the return of Run scheduled
\* whenever they can take a step; the signal may or may not come.
SpecFair ==
    /\ Init
    /\ [][NextNames]_vars
    /\ WF_vars(Worker)
    /\ WF_vars(RunReturn)

\* Callers that also pass URIs for which no rule can be built.
NextBad ==
    \/ Intake(BadUris, NamesEndpoints, {HTTPRouterName}, {HTTP}, MaxCallsBad)
    \/ Worker
    \/ Lifecycle

SpecBad == Init /\ [][NextBad]_vars

\* A single caller that adds and removes endpoints of one URI and keeps a
\* log of its calls.
Caller ==
    \/ \E uri \in CallerUris, endpoint \in Endpoints :
           /\ calls < MaxCallsCaller
           /\ UpdatePoolEndpoints(uri, endpoint)
           /\ issued' = Append(issued, UpdatePoolItem(uri, endpoint))
    \/ \E uri \in CallerUris, endpoint \in Endpoints :
           /\ calls < MaxCallsCaller
           /\ RemovePoolEndpoints(uri, endpoint)
           /\ issued' = Append(issued, RemovePoolItem(uri, endpoint))

NextCaller ==
    \/ Caller
    \/ Worker
    \/ Lifecycle

SpecCaller == Init /\ [][NextCaller]_vars

\* ------------------------------------------- makeRoutePolicy, step by step
routerVars == <<indexVars, queueVars, pc, localVars, written, runpc, calls, issued>>

Tasks == {"r", "w"}

\* the rule map a sortRules goroutine ranges over (lines 400 and 403)
MapOf(t) == IF t = "r" THEN r ELSE wildcards

\* both goroutines given the same list, &rls
ListOf_Shared(t) == "r"

\* the list a sortRules goroutine fills and sorts: &rls and &w (lines 400, 403)
ListOf(t) == t

\* a rule id stands for the pointer to one rule record: index and key
RuleIds == {<<"r", k>> : k \in DOMAIN r} \cup {<<"w", k>> : k \in DOMAIN wildcards}
Rec(id) == MapOf(id[1])[id[2]]
Range(seq) == {seq[i] : i \in 1..Len(seq)}

\* sort.Sort(sort.Reverse(*rls)) on a list of rule pointers
RECURSIVE SortReverseIds(_)
SortReverseIds(S) ==
    IF S = {} THEN <<>>
    ELSE LET x == CHOOSE v \in S : \A y \in S : ~Less(Rec(v), Rec(y))
         IN <<x>> \o SortReverseIds(S \ {x})

\* go sortRules(r.r, &rls, 0)
Go1 ==
    /\ apc = "go1"
    /\ task' = [task EXCEPT !["r"] = [NoTask EXCEPT !.pc = "collect", !.ordinal = 0]]
    /\ apc' = "go2"
    /\ UNCHANGED <<lst, Ordinal, plcyRules, routerVars>>

\* go sortRules(r.wildcards, &w, len(r.m))
Go2 ==
    /\ apc = "go2"
    /\ task' = [task EXCEPT !["w"] = [NoTask EXCEPT !.pc = "collect",
                                                  !.ordinal = Cardinality(DOMAIN m)]]
    /\ apc' = "wait"
    /\ UNCHANGED <<lst, Ordinal, plcyRules, routerVars>>

\* sortRules, lines 386-388: one round of the range over the map, in any
\* order, or the end of the loop
Collect(t) ==
    /\ task[t].pc = "collect"
    /\ IF task[t].seen = DOMAIN MapOf(t)
       THEN /\ task' = [task EXCEPT ![t].pc = "sort"]
            /\ UNCHANGED lst
       ELSE \E k \in (DOMAIN MapOf(t)) \ task[t].seen :
                /\ lst' = [lst EXCEPT ![ListOf(t)] = Append(@, <<t, k>>)]
                /\ task' = [task EXCEPT ![t].seen = @ \cup {k}]
    /\ UNCHANGED <<apc, Ordinal, plcyRules, routerVars>>

\* sortRules, line 390
SortList(t) ==
    /\ task[t].pc = "sort"
    /\ lst' = [lst EXCEPT ![ListOf(t)] = SortReverseIds(Range(@))]
    /\ task' = [task EXCEPT ![t].pc = "number", ![t].cursor = 1]
    /\ UNCHANGED <<apc, Ordinal, plcyRules, routerVars>>

\* sortRules, lines 392-396: one round of the numbering loop, or its end
\* and wg.Done()
Number(t) ==
    /\ task[t].pc = "number"
    /\ IF task[t].cursor <= Len(lst[ListOf(t)])
       THEN /\ Ordinal' = [Ordinal EXCEPT ![lst[ListOf(t)][task[t].cursor]] =
                                              task[t].ordinal]
            /\ task' = [task EXCEPT ![t].cursor = @ + 1, ![t].ordinal = @ + 1]
       ELSE /\ task' = [task EXCEPT ![t].pc = "done"]
            /\ UNCHANGED Ordinal
    /\ UNCHANGED <<apc, lst, plcyRules, routerVars>>

\* wg.Wait(), line 405
Wait ==
    /\ apc = "wait"
    /\ \A t \in Tasks : task[t].pc = "done"
    /\ apc' = "append"
    /\ UNCHANGED <<task, lst, Ordinal, plcyRules, routerVars>>

\* lines 407-412: rls = append(rls, w...); plcy.Rules = rls; return
Return ==
    /\ apc = "append"
    /\ plcyRules' = lst["r"] \o lst["w"]
    /\ apc' = "returned"
    /\ UNCHANGED <<task, lst, Ordinal, routerVars>>

\* the indices after the URIs of U have been added and the virtual servers
\* of V created
IndicesOf(U, V) ==
    LET e == EndpointAddrs[1]
        items == {UpdatePoolItem(u, e) : u \in U}
        ItemOf(n) == CHOOSE w \in items : w.Name = n
    IN Indices([n \in {w.Name : w \in items} \cup V |->
                    IF n \in V THEN makeVirtual(n, HTTP)
                    ELSE makePool(n, ItemOf(n).URI, e)],
               [u \in {w.URI : w \in {x \in items : ~x.Wildcard}} |->
                    makeRouteRule(CHOOSE w \in items : ~w.Wildcard /\ w.URI = u).rule],
               [u \in {w.URI : w \in {x \in items : x.Wildcard}} |->
                    makeRouteRule(CHOOSE w \in items : w.Wildcard /\ w.URI = u).rule])

\* makeRoutePolicy is entered with any such indices; a rule record's Ordinal
\* is 0 (never numbered) or was left by an earlier call
InitSort ==
    /\ \E U \in SUBSET Uris, V \in SUBSET VsNames :
           /\ m = IndicesOf(U, V).m
           /\ r = IndicesOf(U, V).r
           /\ wildcards = IndicesOf(U, V).wildcards
    /\ drainUpdate = TRUE
    /\ queue = <<>>
    /\ dirty = {}
    /\ processing = {}
    /\ shuttingDown = FALSE
    /\ pc = "work"
    /\ item = NoItem
    /\ tryUpdate = FALSE
    /\ l = 0
    /\ pre = NoPre
    /\ doc = NoDocument
    /\ emit = "none"
    /\ afterShutDown = FALSE
    /\ written = InitialDocument
    /\ runpc = "signals"
    /\ calls = 0
    /\ issued = <<>>
    /\ apc = "go1"
    /\ task = [t \in Tasks |-> NoTask]
    /\ lst = [t \in Tasks |-> <<>>]
    /\ Ordinal \in [RuleIds -> 0..1]
    /\ plcyRules = <<>>

NextSort ==
    \/ Go1
    \/ Go2
    \/ \E t \in Tasks : Collect(t)
    \/ \E t \in Tasks : SortList(t)
    \/ \E t \in Tasks : Number(t)
    \/ Wait
    \/ Return

SpecSort == InitSort /\ [][NextSort]_vars

\* ------------------------------------------------------------------ claims
Idx(x) == Indices(x.m, x.r, x.wildcards)

HasEndpoint(st, name, e) ==
    name \in DOMAIN st.m /\ Contains(st.m[name].PoolMemberAddrs, e)

IsPoolAdd(w) == w.kind = "pool" /\ w.op = add
IsPoolRemove(w) == w.kind = "pool" /\ w.op = remove

\* the rules of the policy in the document assembled by this call of process()
PolicyRules == doc.policies[1].Rules

\* C1: every URI that is a key of rules or of wildcardRules has a record in
\* pools under its rule's pool name.  (The indices change only in Work, so
\* "after every processed item" is every state.)
C1_RulesHavePools ==
    /\ \A u \in DOMAIN r : r[u].Name \in DOMAIN m
    /\ \A u \in DOMAIN wildcards : wildcards[u].Name \in DOMAIN m

\* C2: once UpdatePool(u,e) has been processed from a state in which e was not
\* an endpoint of u's pool, processing RemovePool(u,e) gives back the indices
\* as they were before the update; when e is the only endpoint the pool record
\* and its rule are gone.
C2_UpdateThenRemoveRestores ==
    \A uri \in Uris, e \in Endpoints :
        (pc = "done" /\ item = UpdatePoolItem(uri, e) /\ ~HasEndpoint(pre, item.Name, e))
        => LET back == processPoolRemove(Current, RemovePoolItem(uri, e))
           IN /\ Idx(back) = Idx(pre)
              /\ (item.Name \in DOMAIN m /\ m[item.Name].PoolMemberAddrs = <<e>>)
                 => /\ item.Name \notin DOMAIN back.m
                    /\ item.URI \notin DOMAIN back.r
                    /\ item.URI \notin DOMAIN back.wildcards

\* C3: when the write of this call failed (error or short write), dirty is
\* still set afterwards.
C3_DirtyKeptOnFailedWrite ==
    (pc = "done" /\ emit \in {"error", "short"}) => drainUpdate

\* C4: a document is handed to the writer only by a processing step that
\* finds an update pending and reads a queue length of zero; a step taken
\* while items are still queued writes nothing.
C4_WriteOnlyWhenDrained ==
    [][ /\ ((emit' # emit /\ emit' # "none") \/ written' # written \/ (doc' # doc /\ doc'.full))
           => /\ pc = "work"
              /\ queue = <<>>
              /\ l' = 0
              /\ (drainUpdate \/ tryUpdate')
        /\ (pc = "work" /\ queue # <<>>)
           => (emit' = "none" /\ written' = written /\ doc' = NoDocument)
      ]_vars

\* C4 witness: the write that follows a burst, made by the step that emptied
\* the queue, on account of an update an earlier step had left pending
C4_WriteAfterBurst ==
    pc = "done" /\ emit = "ok" /\ pre.drainUpdate /\ l = 0 /\ written = doc

\* C5 (as stated): no URI is a key of both rules and wildcardRules.
C5_KeysDisjoint == (DOMAIN r) \cap (DOMAIN wildcards) = {}

\* C5 (amended): each rule is filed in the index of its class only.  rules
\* holds equals-rules keyed by a URI without the "*." prefix, wildcardRules
\* holds ends-with rules keyed by the wildcard URI stripped of "*."; so no URI
\* as passed by a caller is in both, and a key held by both names two
\* different pools.
C5_EachRuleInItsClass ==
    /\ \A u \in DOMAIN r :
           ~r[u].EndsWith /\ r[u].FullURI = u /\ ~HasPrefix(u, WildcardPrefix)
    /\ \A u \in DOMAIN wildcards :
           wildcards[u].EndsWith /\ wildcards[u].FullURI = u
    /\ (DOMAIN r) \cap {WildcardPrefix \o u : u \in DOMAIN wildcards} = {}
    /\ \A u \in (DOMAIN r) \cap (DOMAIN wildcards) : r[u].Name # wildcards[u].Name

\* C5 witness: h and "*.h" have both been added; the key h is in both indices
C5_SharedKey ==
    \E h \in Hosts :
        /\ pc = "done"
        /\ h \in DOMAIN r
        /\ h \in DOMAIN wildcards
        /\ makePoolName(h) \in DOMAIN m
        /\ h \in DOMAIN m

\* C6: processing RemovePool(u,e) when u's pool is absent or does not hold e
\* leaves the indices unchanged and does not set dirty, so that it causes no
\* document.
C6_RemoveWithoutChange ==
    \A uri \in Uris, e \in Endpoints :
        (pc = "done" /\ item = RemovePoolItem(uri, e) /\ ~HasEndpoint(pre, item.Name, e))
        => /\ Current = Idx(pre)
           /\ ~tryUpdate
           /\ (~pre.drainUpdate => (emit = "none" /\ ~drainUpdate))

\* C7: processing UpdatePool(u,e) when e is already an endpoint of u's pool
\* leaves the indices unchanged and does not set dirty, and causes no document
\* when none was pending; applying an add a second time changes nothing; no
\* endpoint list holds an address twice.
C7_AddIdempotent ==
    /\ (pc = "done" /\ IsPoolAdd(item) /\ HasEndpoint(pre, item.Name, item.Endpoint))
       => /\ Current = Idx(pre)
          /\ ~tryUpdate
          /\ (drainUpdate => pre.drainUpdate)
          /\ (~pre.drainUpdate => emit = "none")
    /\ \A uri \in Uris, e \in Endpoints :
           LET once == processPoolAdd(Current, UpdatePoolItem(uri, e))
               twice == processPoolAdd(Idx(once), UpdatePoolItem(uri, e))
           IN Idx(twice) = Idx(once) /\ ~twice.ret
    /\ \A k \in DOMAIN m :
           \A i, j \in 1..Len(m[k].PoolMemberAddrs) :
               i # j => m[k].PoolMemberAddrs[i] # m[k].PoolMemberAddrs[j]

\* C7 witness: a repeated add, processed after the first one was written out
C7_RepeatedAddAfterEmission ==
    /\ pc = "done"
    /\ IsPoolAdd(item)
    /\ HasEndpoint(pre, item.Name, item.Endpoint)
    /\ ~pre.drainUpdate
    /\ written.full
    /\ \E i \in 1..Len(written.services) :
           /\ written.services[i].Name = item.Name
           /\ Contains(written.services[i].Config.PoolMemberAddrs, item.Endpoint)

\* C8: in every assembled policy each exact rule has an Ordinal strictly
\* smaller than each wildcard rule.
C8_ExactBeforeWildcard ==
    doc.full =>
        \A i, j \in 1..Len(PolicyRules) :
            (~PolicyRules[i].EndsWith /\ PolicyRules[j].EndsWith)
            => PolicyRules[i].Ordinal < PolicyRules[j].Ordinal

\* C9: the rules of an assembled policy are the entries of rules followed by
\* the entries of wildcardRules, each once; each class is in strictly
\* decreasing order of FullURI and numbered without gaps, from 0 for the exact
\* rules and from the number of pools for the wildcard rules.
C9_PolicyLayout ==
    doc.full =>
        LET nE == Cardinality(DOMAIN r)
            nW == Cardinality(DOMAIN wildcards)
            base == Cardinality(DOMAIN m)
            Stored(e) == [FullURI |-> e.FullURI, Name |-> e.Name, EndsWith |-> e.EndsWith]
        IN /\ Len(PolicyRules) = nE + nW
           /\ \A i \in 1..nE :
                  /\ PolicyRules[i].FullURI \in DOMAIN r
                  /\ Stored(PolicyRules[i]) = r[PolicyRules[i].FullURI]
                  /\ PolicyRules[i].Ordinal = i - 1
           /\ \A i \in 1..nW :
                  /\ PolicyRules[nE + i].FullURI \in DOMAIN wildcards
                  /\ Stored(PolicyRules[nE + i]) = wildcards[PolicyRules[nE + i].FullURI]
                  /\ PolicyRules[nE + i].Ordinal = base + (i - 1)
           /\ \A i \in 1..(nE - 1) :
                  StringLess(PolicyRules[i + 1].FullURI, PolicyRules[i].FullURI)
           /\ \A i \in 1..(nW - 1) :
                  StringLess(PolicyRules[nE + i + 1].FullURI, PolicyRules[nE + i].FullURI)

\* C9 witness: a policy with two exact rules and a wildcard rule
C9_TwoExactOneWildcard ==
    /\ doc.full
    /\ Cardinality(DOMAIN r) = 2
    /\ Cardinality(DOMAIN wildcards) = 1
    /\ Len(PolicyRules) = 3

\* C10: every pool record that is not a virtual-server front has at least one
\* endpoint.
C10_PoolsNonEmpty ==
    \A k \in DOMAIN m : ~m[k].Virtual => Len(m[k].PoolMemberAddrs) > 0

\* C10 witness: the step that removed a pool's last endpoint deleted the record
C10_LastEndpointRemoved ==
    /\ pc = "done"
    /\ IsPoolRemove(item)
    /\ item.Name \in DOMAIN pre.m
    /\ ~pre.m[item.Name].Virtual
    /\ pre.m[item.Name].PoolMemberAddrs = <<item.Endpoint>>
    /\ item.Name \notin DOMAIN m

C12_IntakeOnlyEnqueues ==
    [][ /\ calls' # calls
           => /\ UNCHANGED <<m, r, wildcards, drainUpdate, pc, item, written>>
              /\ Cardinality(dirty' \ dirty) <= 1
              /\ dirty \subseteq dirty'
              /\ \/ queue' = queue
                 \/ \E w \in dirty' \ dirty : queue' = Append(queue, w)
        /\ <<m, r, wildcards, drainUpdate>>' # <<m, r, wildcards, drainUpdate>>
           => /\ pc = "work" /\ pc' = "done"
              /\ calls' = calls
              /\ Idx(Dispatch(Current, item)) = Current'
      ]_vars

\* C12 witness: a call made while the worker was processing an equal item:
\* the item is marked for re-queueing, the indices hold the worker's result
C12_CallDuringProcessing ==
    /\ pc = "done"
    /\ item \in dirty
    /\ calls = 2
    /\ Current # Idx(pre)
    /\ Current = Idx(Dispatch(Idx(pre), item))

\* C13: when the rule of an UpdatePool for a pool that does not exist cannot
\* be built, the step creates no pool record and no rule and leaves the
\* indices as they were, it does not set dirty and causes no document of its
\* own, and the worker has not stopped; so no index ever holds such a URI.
C13_FailedAddDropped ==
    /\ (IsPoolAdd(item) /\ ~UrlParseOk(item.URI) /\ pc = "done"
        /\ item.Name \notin DOMAIN pre.m)
       => /\ Current = Idx(pre)
          /\ item.Name \notin DOMAIN m
          /\ item.URI \notin (DOMAIN r) \cup (DOMAIN wildcards)
          /\ ~tryUpdate
          /\ (drainUpdate => pre.drainUpdate)
          /\ (~pre.drainUpdate => emit = "none")
    /\ (IsPoolAdd(item) /\ ~UrlParseOk(item.URI)) => pc # "exited"
    /\ \A u \in (DOMAIN r) \cup (DOMAIN wildcards) : UrlParseOk(u)
    /\ \A k \in DOMAIN m : ~m[k].Virtual => UrlParseOk(m[k].ServiceName)

\* C13 witness: a failed add was processed between other items: a pool
\* exists from before, and another item waits in the queue
C13_FailedAddBetweenItems ==
    /\ pc = "done"
    /\ IsPoolAdd(item)
    /\ ~UrlParseOk(item.URI)
    /\ item.Name \notin DOMAIN pre.m
    /\ pre.m # EmptyMap
    /\ queue # <<>>

IsVirtualAdd(w) == w.kind = "virtual" /\ w.op = add
IsVirtualRemove(w) == w.kind = "virtual" /\ w.op = remove

\* C14: after UpdateVirtualServer(name,t) has been processed pools[name] is a
\* virtual-server record with port 80 and no SSL profile for HTTP, port 443
\* and the SSL profile for HTTPS, whatever was there before; after
\* RemoveVirtualServer(name,t) pools has no record for name; no other record
\* and no rule is touched; and either step reports an update every time:
\* dirty is set, or the document was handed to the writer by the same step.
C14_VirtualServerRecord ==
    /\ (pc = "done" /\ IsVirtualAdd(item))
       => /\ item.Name \in DOMAIN m
          /\ m[item.Name].Virtual
          /\ m[item.Name].ServiceName = item.Name
          /\ m[item.Name].PoolMemberAddrs = <<>>
          /\ item.T = HTTP => (m[item.Name].Port = 80 /\ ~m[item.Name].SSLProfile)
          /\ item.T = HTTPS => (m[item.Name].Port = 443 /\ m[item.Name].SSLProfile)
          /\ DOMAIN m = (DOMAIN pre.m) \cup {item.Name}
    /\ (pc = "done" /\ IsVirtualRemove(item))
       => /\ item.Name \notin DOMAIN m
          /\ DOMAIN m = (DOMAIN pre.m) \ {item.Name}
    /\ (pc = "done" /\ item.kind = "virtual")
       => /\ \A k \in (DOMAIN m) \ {item.Name} : m[k] = pre.m[k]
          /\ r = pre.r /\ wildcards = pre.wildcards
          /\ tryUpdate
          /\ (drainUpdate \/ emit # "none")

\* C14 witness: an HTTPS update has replaced the HTTP record of the same name
C14_SwappedToHTTPS ==
    /\ pc = "done"
    /\ IsVirtualAdd(item)
    /\ item.T = HTTPS
    /\ item.Name \in DOMAIN pre.m
    /\ pre.m[item.Name].Port = 80
    /\ m[item.Name].Port = 443

\* the set of entries of a services list
ServiceSet(d) == {d.services[i] : i \in 1..Len(d.services)}

\* C15: the document assembled by this call and the last document the writer
\* accepted, when made from equal pools, rules and wildcardRules (equal policy
\* and the same services entries), are identical, the order of the services
\* entries included.
C15_EqualIndicesEqualDocuments ==
    (/\ pc = "done"
     /\ doc.full
     /\ written.full
     /\ doc.policies = written.policies
     /\ ServiceSet(doc) = ServiceSet(written))
    => doc = written

\* the indices after the handlers have been applied to the items one by one
RECURSIVE ApplyInOrder(_, _)
ApplyInOrder(st, items) ==
    IF items = <<>> THEN st
    ELSE ApplyInOrder(Idx(Dispatch(st, Head(items))), Tail(items))

\* C16: when the queue has drained (no signal so far), the indices are those
\* obtained by applying the caller's calls one by one in issue order, also
\* when a call's item was equal to one still waiting in the queue.
C16_DrainedEqualsInOrder ==
    (runpc = "signals" /\ pc = "get" /\ queue = <<>> /\ dirty = {})
    => Current = ApplyInOrder(Indices(EmptyMap, EmptyMap, EmptyMap), issued)

\* what the last accepted document says, and what the indices hold
WrittenRules == IF written.full THEN written.policies[1].Rules ELSE <<>>
WithoutOrdinal(e) == [FullURI |-> e.FullURI, Name |-> e.Name, EndsWith |-> e.EndsWith]

WrittenIsCurrent ==
    /\ Len(written.services) = Cardinality(DOMAIN m)
    /\ ServiceSet(written) = {Service(Current, k) : k \in DOMAIN m}
    /\ Len(WrittenRules) = Cardinality(DOMAIN r) + Cardinality(DOMAIN wildcards)
    /\ {WithoutOrdinal(WrittenRules[i]) : i \in 1..Len(WrittenRules)}
           = Values(r) \cup Values(wildcards)

Settled == queue = <<>> /\ dirty = {} /\ ~drainUpdate /\ WrittenIsCurrent

C18_RunReturns ==
    /\ [](runpc # "signals" => shuttingDown)
    /\ (runpc = "done") ~> (pc = "exited" /\ runpc = "returned")

\* C18 witness: Run has returned although pools exist whose document the
\* writer never accepted
C18_ReturnedAfterFailedWrite ==
    /\ runpc = "returned"
    /\ pc = "exited"
    /\ m # EmptyMap
    /\ ~written.full

\* C19: a processed pool item leaves a record that a virtual-server item
\* created as it was; a processed virtual-server item leaves rules and
\* wildcardRules as they were, and leaves as it was a pool record that has
\* endpoints and a rule.
C19_NoInterference ==
    /\ (pc = "done" /\ item.kind = "pool"
        /\ item.Name \in DOMAIN pre.m /\ pre.m[item.Name].Virtual)
       => (item.Name \in DOMAIN m /\ m[item.Name] = pre.m[item.Name])
    /\ (pc = "done" /\ item.kind = "virtual")
       => /\ r = pre.r
          /\ wildcards = pre.wildcards
          /\ (/\ item.Name \in DOMAIN pre.m
              /\ ~pre.m[item.Name].Virtual
              /\ Len(pre.m[item.Name].PoolMemberAddrs) > 0
              /\ \E e \in Values(pre.r) \cup Values(pre.wildcards) : e.Name = item.Name)
             => (item.Name \in DOMAIN m /\ m[item.Name] = pre.m[item.Name])

\* the policy's rules as the caller reads them through the pointers
PolicyRead ==
    [i \in 1..Len(plcyRules) |->
        Rec(plcyRules[i]) @@ [Ordinal |-> Ordinal[plcyRules[i]]]]

C20_SortState ==
    /\ \A t \in Tasks : \A i \in 1..Len(lst[t]) : lst[t][i][1] = t
    /\ apc \in {"append", "returned"} => \A t \in Tasks : task[t].pc = "done"
    /\ apc = "returned" => PolicyRead = makeRoutePolicy(Current).Rules

C20_SortStep ==
    \A t \in Tasks : \A o \in Tasks \ {t} :
        task'[o] = task[o]
        => /\ lst'[o] = lst[o]
           /\ \A k \in DOMAIN MapOf(o) : Ordinal'[<<o, k>>] = Ordinal[<<o, k>>]

\* C20: each sort task writes only its own list and the Ordinal fields of the
\* rule records of its own index; the assembler goes on only when both tasks
\* have finished; and whatever the interleaving and the order in which the
\* maps are ranged over, the policy it returns is the one obtained by sorting
\* and numbering the two indices one after the other.
C20_SortTasksIndependent ==
    []C20_SortState /\ [][C20_SortStep]_vars

\* C20 witness: the assembler has returned a policy of two exact and two
\* wildcard rules, with keys present in both indices
C20_FourRulesAssembled ==
    /\ apc = "returned"
    /\ Cardinality(DOMAIN r) = 2
    /\ DOMAIN wildcards = DOMAIN r
    /\ Len(plcyRules) = 4

====
